---- MODULE Spec2Model ----
(***************************************************************************)
(* Tapestry browser extension: the background script's connection and      *)
(* correlation state (src/extension/src/background/background.ts).         *)
(*                                                                         *)
(* The script runs on a single-threaded event loop.  Every action below is *)
(* one synchronous run of a listener or of the continuation of an `await`; *)
(* the `await loadFabricSettings()` inside startNativeHandshake and inside *)
(* the request handlers splits those functions into two actions, so other  *)
(* listeners may run in between, as they can in the browser.               *)
(*                                                                         *)
(* lastEvent, broadcasts, posted and responses describe the run that led   *)
(* to the current state: which listener ran, and the calls it made to      *)
(* chrome.runtime.sendMessage, port.postMessage and sendResponse, in order.*)
(*                                                                         *)
(* The other components are modelled after the background script, each     *)
(* with its own variables and its own specification: the native host's     *)
(* process supervisor (HostSpec), the connection helpers of the pages      *)
(* (ConnectionSpec), debounce (DebounceSpec), the sidebar's handlers        *)
(* (SidebarSpec) and the saving of the preferences (PreferencesSpec).  A    *)
(* specification moves the variables of its component and leaves all       *)
(* others as they are.                                                     *)
(***************************************************************************)
EXTENDS Integers, Sequences, FiniteSets, TLC

\* Number of internal requests (sendResponse callbacks) that are tracked.
MaxReq == 2
\* Number of native ports chrome.runtime.connectNative can hand out.
MaxPorts == 2

Reqs == 1..MaxReq
Ports == 1..MaxPorts

\* "no port" / "no id" / "no callback" placeholders of the uniform records.
NoPort == 0
NoId == 0
NoReq == 0
\* An id that is present and is not a UUID.
NotUuid == -1

\* Number of correlation ids the native host's peer uses for processContent.
MaxOps == 2
\* Number of stdout lines a spawned process produces at most.
MaxLines == 2
\* Number of connection listeners (components showing the connection status).
MaxListeners == 3

OpIds == 1..MaxOps
Listeners == 1..MaxListeners

\* debounce: the number of calls of the debounced function, the different
\* arguments they are made with, and the span of time looked at.
MaxCalls == 3
MaxArgs == 2
MaxTime == 6
\* The delay the debounced function was made with, in ticks of the clock.
Delay == 2
\* timeoutId while no timer is remembered.
NoTimeout == 0

\* Sidebar: the number of times Go starts an operation, and the number of
\* content messages an output is followed for.
MaxGo == 2
MaxOutput == 2

GoIds == 1..MaxGo

\* Preferences: the number of saveSettingsImmediate calls looked at.
MaxSaves == 3
SaveIds == 1..MaxSaves
Args == 1..MaxArgs
\* The ids window.setTimeout hands out, one per call.
TimeoutIds == 1..MaxCalls

VARIABLES
    nativeConnection,   \* [status, port]: the tagged union Connection
    pendingRequests,    \* Map<id, sendResponse> in insertion order; each entry also
                        \* remembers the type of the request whose callback it holds
    ports,              \* per port: "unopened", "open" or "closed"
    handshake,          \* per port: startNativeHandshake "none", "pending" (awaiting settings) or "done"
    pings,              \* per port: number of postMessage(native.ping) calls
    requests,           \* per tracked request: [type, pc], where its handler stands
    called,             \* per tracked request: how often its sendResponse ran
    lastEvent,          \* the listener run that produced this state
    broadcasts,         \* chrome.runtime.sendMessage calls of that run
    posted,             \* port.postMessage calls of that run
    responses           \* sendResponse calls of that run

\* The native host (process supervisor and request router).
VARIABLES
    inFlight,           \* the in-flight operations: records [id, cursor], cursor the
                        \* number of stdout lines read from the operation's process
    stream,             \* per correlation id: the frames emitted for its operation
    hostEvent           \* the request or process event handled last, with the
                        \* frames that step wrote to the transport

\* shared/connection.ts
VARIABLES
    connectionListeners,        \* the Set of registered listeners
    messageListenerRegistered,  \* the module's flag
    chromeMessageListener,      \* "null" or the handler the module registered
    onMessageListeners,         \* the handlers chrome.runtime.onMessage holds
    connectionEvent             \* the call or message handled last, with the
                                \* addListener / removeListener calls it made, what
                                \* it delivered to each listener and what it returned

\* debounce
VARIABLES
    now,            \* the clock
    timeoutId,      \* the closure's timeoutId, NoTimeout for undefined
    timers,         \* the window's pending timers: records [id, due, args]
    nextTimeoutId,  \* the id window.setTimeout returns next
    history         \* the calls of the debounced function and the invocations
                    \* of the wrapped one, in order: records [kind, at, args]

\* Sidebar.svelte
VARIABLES
    processingState,  \* the ProcessingState: [type, requestId, output, message]
    pendingGo,        \* handleGo runs awaiting the answer to capturePage: their request ids
    pendingCancel,    \* handleCancel runs awaiting the answer to cancelProcess:
                      \* records [idToCancel, currentOutput]
    nextRequestId,    \* the id generateRequestId returns next in the sidebar
    sidebarSent,      \* the requests the last step sent with sendSafely
    sidebarEvent      \* the handler step that ran last

\* Preferences.svelte
VARIABLES
    settings,          \* the component's settings: [loaded, fabricPath, fabricModel],
                       \* loaded FALSE while it is undefined
    storedSettings,    \* chrome.storage.local: [fabricPath, fabricModel]
    pendingSaves,      \* saveSettingsImmediate runs awaiting saveSettings: records
                       \* [id, updates, newSettings, fabricPathChanged, loadedPath]
    nextSaveId,        \* numbers the runs
    saveStatus,        \* 'idle', 'saving', 'saved' or 'error'
    statusTimers,      \* pending setTimeout(() => (saveStatus = 'idle'), 2000) timers
    preferencesSent,   \* the requests the last step sent with sendSafely
    preferencesEvent   \* the step that ran last

backgroundVars == <<nativeConnection, pendingRequests, ports, handshake, pings, requests,
                    called, lastEvent, broadcasts, posted, responses>>
hostVars == <<inFlight, stream, hostEvent>>
connectionVars == <<connectionListeners, messageListenerRegistered, chromeMessageListener,
                    onMessageListeners, connectionEvent>>
debounceVars == <<now, timeoutId, timers, nextTimeoutId, history>>
sidebarVars == <<processingState, pendingGo, pendingCancel, nextRequestId,
                 sidebarSent, sidebarEvent>>
preferencesVars == <<settings, storedSettings, pendingSaves, nextSaveId, saveStatus,
                     statusTimers, preferencesSent, preferencesEvent>>

vars == <<backgroundVars, hostVars, connectionVars, debounceVars, sidebarVars,
          preferencesVars>>

\* What a step of one component leaves alone: the other components.
exceptBackground == <<hostVars, connectionVars, debounceVars, sidebarVars, preferencesVars>>
exceptHost == <<backgroundVars, connectionVars, debounceVars, sidebarVars, preferencesVars>>
exceptConnection == <<backgroundVars, hostVars, debounceVars, sidebarVars, preferencesVars>>
exceptDebounce == <<backgroundVars, hostVars, connectionVars, sidebarVars, preferencesVars>>
exceptSidebar == <<backgroundVars, hostVars, connectionVars, debounceVars, preferencesVars>>
exceptPreferences == <<backgroundVars, hostVars, connectionVars, debounceVars, sidebarVars>>

----------------------------------------------------------------------------
(* Message vocabularies                                                    *)

\* Types the NativeResponseSchema accepts.
NativeResponseTypes ==
    {"native.pong", "native.patternsList", "native.contextsList",
     "native.content", "native.done", "native.error", "native.cancelled"}

\* Frames the native host can put on a port: every accepted type with every
\* id, a frame without id, a frame whose id is not a UUID, and a frame with an
\* unprefixed (unknown) type.
NativeFrames ==
    [type : NativeResponseTypes \ {"native.pong"}, id : Reqs, valid : {FALSE}]
    \cup [type : {"native.pong"}, id : {1}, valid : BOOLEAN]
    \cup {[type |-> "native.done", id |-> NoId, valid |-> FALSE],
          [type |-> "native.error", id |-> NotUuid, valid |-> FALSE],
          [type |-> "pong", id |-> 1, valid |-> TRUE]}

\* Mutant of NativeResponseSchema: only the type is looked at.
NativeResponseSchema_TypeOnly(message) == message.type \in NativeResponseTypes

\* NativeResponseSchema.safeParse(message).success
NativeResponseSchema(message) ==
    /\ message.type \in NativeResponseTypes
    /\ message.id \notin {NoId, NotUuid}

\* Types the InternalRequestSchema accepts.
InternalRequestTypes ==
    {"internal.connectionStatus", "internal.listPatterns", "internal.listContexts",
     "internal.capturePage", "internal.processContent", "internal.reconnectNative"}

\* Request types that are forwarded to the native host and answered later.
NativeBoundTypes ==
    {"internal.listPatterns", "internal.listContexts", "internal.processContent"}

\* Messages the UI sends to the background script.  content: the message has
\* a string field `content`, which only internal.processContent requires.
InternalMessages ==
    [type : {"internal.listPatterns", "internal.listContexts", "internal.connectionStatus",
             "internal.reconnectNative", "internal.unknown_type"},
     requestId : {NoId}, content : {FALSE}]
    \cup [type : {"internal.processContent"}, requestId : {NoId}, content : BOOLEAN]
    \cup [type : {"internal.cancelProcess"}, requestId : Reqs, content : {FALSE}]

\* Mutant of InternalRequestSchema: only the type is looked at.
InternalRequestSchema_TypeOnly(message) == message.type \in InternalRequestTypes

\* InternalRequestSchema.safeParse(message).success
InternalRequestSchema(message) ==
    /\ message.type \in InternalRequestTypes
    /\ message.type = "internal.processContent" => message.content

\* The native request type a request handler builds for an internal type.
NativeTypeOf(type) ==
    CASE type = "internal.listPatterns" -> "native.listPatterns"
      [] type = "internal.listContexts" -> "native.listContexts"
      [] type = "internal.processContent" -> "native.processContent"

----------------------------------------------------------------------------
(* Helpers over the state                                                  *)

Disconnected == [status |-> "disconnected", port |-> NoPort]

\* A tracked request whose handler has returned.
Returned == [type |-> "none", pc |-> "done"]

\* pendingRequests.has(id)
HasPending(pending, id) == \E i \in 1..Len(pending) : pending[i].id = id

\* pendingRequests.get(id): the callback stored under id
GetPending(pending, id) ==
    LET i == CHOOSE j \in 1..Len(pending) : pending[j].id = id IN pending[i].respond

\* pendingRequests.delete(id)
DeletePending(pending, id) == SelectSeq(pending, LAMBDA e : e.id # id)

\* Number of sendResponse calls in resps that went to callback r.
Calls(resps, r) == Cardinality({i \in 1..Len(resps) : resps[i].to = r})

\* generateRequestId(): a fresh UUID; request r gets the id r.
generateRequestId(r) == r

\* chrome.runtime.connectNative can still hand out a port never seen before.
HasFreshPort == \E p \in Ports : ports[p] = "unopened"

Event(op, port, type, id, valid, req, ret) ==
    [op |-> op, port |-> port, type |-> type, id |-> id, valid |-> valid,
     req |-> req, was |-> nativeConnection.status, ret |-> ret]

StatusMessage(status) ==
    [type |-> "internal.connectionStatus", status |-> status, id |-> NoId]

Response(to, type, message, id) ==
    [to |-> to, type |-> type, message |-> message, id |-> id]

\* shared/connection.ts: what the helpers receive and return.

NoListener == 0

\* A runtime message, as far as handleInternalMessage reads it: its type and
\* its status ("" when it has none).
RuntimeMessage(type, status) == [type |-> type, status |-> status]
NoMessage == RuntimeMessage("none", "")
\* The value undefined in the place of a response.
Undefined == RuntimeMessage("undefined", "")

\* The messages and responses that reach a page.
RuntimeMessages ==
    { RuntimeMessage("internal.connectionStatus", "connected"),
      RuntimeMessage("internal.connectionStatus", "disconnected"),
      RuntimeMessage("internal.processingContent", ""),
      RuntimeMessage("internal.processingError", ""),
      RuntimeMessage("internal.patternsList", "") }

\* How a chrome.runtime.sendMessage call ends: it resolves with a response or
\* with undefined, or it rejects with an Error (with this message) or with a
\* value that is not an object.
SendOutcome(kind, error, response) == [kind |-> kind, error |-> error, response |-> response]
NoOutcome == SendOutcome("none", "", Undefined)
SendOutcomes ==
    { SendOutcome("resolved", "", response) : response \in RuntimeMessages \cup {Undefined} }
    \cup { SendOutcome("rejected", error, Undefined) :
              error \in {"Receiving end does not exist", "Some other error", "not an object"} }

\* What a call returned: whether it threw, the response and the status.
Result(threw, response, status) == [threw |-> threw, response |-> response, status |-> status]
NoResult == Result(FALSE, Undefined, "")

ConnectionEvent(op, listener, message, added, removed, delivered, outcome, result) ==
    [op |-> op, listener |-> listener, message |-> message, added |-> added,
     removed |-> removed, delivered |-> delivered, outcome |-> outcome, result |-> result]

\* Sidebar.svelte: states, answers and events.

\* A ProcessingState; the fields a variant does not have are NoId, << >>, "".
State(type, requestId, output, message) ==
    [type |-> type, requestId |-> requestId, output |-> output, message |-> message]

\* The answer to a request sent with sendSafely, as far as the sidebar reads
\* it: its type, its id and its message.
Answer(type, id, message) == [type |-> type, id |-> id, message |-> message]
NoAnswer == Answer("none", NoId, "")
\* sendSafely returned undefined.
UndefinedAnswer == Answer("undefined", NoId, "")

SidebarEvent(op, requestId, output, answer) ==
    [op |-> op, requestId |-> requestId, output |-> output, answer |-> answer]

\* A request the sidebar sends.
SidebarRequest(type, requestId) == [type |-> type, requestId |-> requestId]

\* Preferences.svelte: updates and events.

\* A field a Partial<Settings> does not have.
UndefinedField == "undefined"

\* The updates a save is called with, as far as fabricPath and fabricModel go.
Updates(fabricPath, fabricModel) == [fabricPath |-> fabricPath, fabricModel |-> fabricModel]
NoUpdates == Updates(UndefinedField, UndefinedField)

\* ok: saveSettings resolved; loadedPath: settings.fabricPath when the run began.
PreferencesEvent(op, id, updates, ok, loadedPath) ==
    [op |-> op, id |-> id, updates |-> updates, ok |-> ok, loadedPath |-> loadedPath]

----------------------------------------------------------------------------
Init ==
    /\ nativeConnection = Disconnected
    /\ pendingRequests = << >>
    /\ ports = [p \in Ports |-> "unopened"]
    /\ handshake = [p \in Ports |-> "none"]
    /\ pings = [p \in Ports |-> 0]
    /\ requests = [r \in Reqs |-> [type |-> "none", pc |-> "new"]]
    /\ called = [r \in Reqs |-> 0]
    /\ lastEvent = [op |-> "init", port |-> NoPort, type |-> "none", id |-> NoId,
                    valid |-> FALSE, req |-> NoReq, was |-> "disconnected", ret |-> "none"]
    /\ broadcasts = << >>
    /\ posted = << >>
    /\ responses = << >>
    /\ inFlight = {}
    /\ stream = [id \in OpIds |-> << >>]
    /\ hostEvent = [op |-> "init", id |-> NoId, requestId |-> NoId, emitted |-> << >>]
    /\ connectionListeners = {}
    /\ messageListenerRegistered = FALSE
    /\ chromeMessageListener = "null"
    /\ onMessageListeners = {}
    /\ now = 0
    /\ timeoutId = NoTimeout
    /\ timers = {}
    /\ nextTimeoutId = 1
    /\ history = << >>
    /\ processingState = State("idle", NoId, << >>, "")
    /\ pendingGo = {}
    /\ pendingCancel = {}
    /\ nextRequestId = 1
    /\ sidebarSent = << >>
    /\ sidebarEvent = SidebarEvent("init", NoId, << >>, NoAnswer)
    /\ settings = [loaded |-> FALSE, fabricPath |-> "", fabricModel |-> ""]
    /\ storedSettings = [fabricPath |-> "", fabricModel |-> ""]
    /\ pendingSaves = {}
    /\ nextSaveId = 1
    /\ saveStatus = "idle"
    /\ statusTimers = 0
    /\ preferencesSent = << >>
    /\ preferencesEvent = PreferencesEvent("init", 0, NoUpdates, FALSE, "")
    /\ connectionEvent = ConnectionEvent("init", NoListener, NoMessage, 0, 0,
                                         [l \in Listeners |-> << >>], NoOutcome, NoResult)

----------------------------------------------------------------------------
(* background.ts: functions                                                *)

\* Mutant of cleanupPending: the callbacks run but the map is not cleared.
cleanupPending_NoClear(reason, then) ==
    /\ responses' = [i \in 1..Len(pendingRequests) |->
                        Response(pendingRequests[i].respond, "internal.processingError",
                                 reason, NoId)] \o then
    /\ UNCHANGED pendingRequests

\* cleanupPending(reason): every stored callback gets a processingError, in
\* insertion order, then the map is cleared.  then: the sendResponse calls the
\* caller makes after it in the same run.
cleanupPending(reason, then) ==
    /\ responses' = [i \in 1..Len(pendingRequests) |->
                        Response(pendingRequests[i].respond, "internal.processingError",
                                 reason, NoId)] \o then
    /\ pendingRequests' = << >>

\* getPort()
getPort == IF nativeConnection.status = "disconnected" THEN NoPort ELSE nativeConnection.port

\* broadcastConnectionStatus(), called when the connection is conn.
broadcastConnectionStatus(conn) ==
    broadcasts' = << StatusMessage(IF conn.status = "connected" THEN "connected"
                                                                ELSE "disconnected") >>

\* Mutant of connectNative: only the connected state returns the existing
\* port, a call made while connecting opens another one.
connectNative_ReopensWhileConnecting(conn, prts) ==
    IF conn.status # "connected" /\ \E p \in Ports : prts[p] = "unopened"
    THEN LET port == CHOOSE p \in Ports :
                        /\ prts[p] = "unopened"
                        /\ \A q \in 1..(p - 1) : prts[q] # "unopened"
         IN /\ nativeConnection' = [status |-> "connecting", port |-> port]
            /\ ports' = [prts EXCEPT ![port] = "open"]
            /\ handshake' = [handshake EXCEPT ![port] = "pending"]
    ELSE /\ nativeConnection' = conn
         /\ ports' = prts
         /\ handshake' = handshake

\* connectNative() up to its first await, called when the connection is conn
\* and the ports are prts: in state disconnected it opens a port, registers
\* the two port listeners and starts the handshake, which then waits for the
\* settings; in the other two states it returns the existing port.
connectNative(conn, prts) ==
    IF conn.status = "disconnected"
    THEN LET port == CHOOSE p \in Ports :
                        /\ prts[p] = "unopened"
                        /\ \A q \in 1..(p - 1) : prts[q] # "unopened"
         IN /\ nativeConnection' = [status |-> "connecting", port |-> port]
            /\ ports' = [prts EXCEPT ![port] = "open"]
            /\ handshake' = [handshake EXCEPT ![port] = "pending"]
    ELSE /\ nativeConnection' = conn
         /\ ports' = prts
         /\ handshake' = handshake

\* The id generateRequestId() gives the ping sent on a port: a fresh UUID,
\* different from the id of every request.
PingId(port) == MaxReq + port

\* What chrome.storage.local can hold under the three fabric keys when it is
\* read; "" is a key that is not set (or set to the empty string).  Nothing
\* is set, path and model are set, or all three are set.
StorageValues ==
    {[fabricPath |-> "", fabricModel |-> "", fabricContext |-> ""],
     [fabricPath |-> "/opt/fabric", fabricModel |-> "gpt-4o", fabricContext |-> ""],
     [fabricPath |-> "/opt/fabric", fabricModel |-> "gpt-4o", fabricContext |-> "tapestry"]}

\* loadFabricSettings() when the storage holds stored: the keys fabricPath and
\* fabricModel are read and returned as path and model, left out when empty.
\* "" stands for a field that is left out.
loadFabricSettings(stored) == [path |-> stored.fabricPath, model |-> stored.fabricModel]

\* The override fields of the frame a handler builds from the settings it
\* loaded.  The result of loadFabricSettings has no context, so the context
\* that the processContent handler destructures from it is undefined.
Overrides(type, fabricSettings) ==
    [path |-> fabricSettings.path,
     model |-> IF type = "native.processContent" THEN fabricSettings.model ELSE "",
     context |-> ""]

\* One port.postMessage call: the frame, whether the port was still open,
\* whether pendingRequests already held the frame's id at the time of the call
\* and what the storage held when the handler loaded the settings.
Post(port, type, id, requestId, stored) ==
    [port |-> port, type |-> type, id |-> id, requestId |-> requestId,
     open |-> ports[port] = "open",
     recorded |-> HasPending(pendingRequests, id),
     stored |-> stored,
     carries |-> Overrides(type, loadFabricSettings(stored))]

\* startNativeHandshake(port) after `await loadFabricSettings()`: the ping is
\* built and posted on the port the handshake was started for.
startNativeHandshake(port, stored) ==
    /\ posted' = << Post(port, "native.ping", PingId(port), NoId, stored) >>
    /\ pings' = [pings EXCEPT ![port] = @ + 1]
    /\ handshake' = [handshake EXCEPT ![port] = "done"]

----------------------------------------------------------------------------
(* background.ts: handleNativeMessage, one definition per case             *)

\* Mutant of NativePong: the status is broadcast before the state is updated.
NativePong_BroadcastsFirst(message, port) ==
    IF message.valid
    THEN /\ nativeConnection' = [status |-> "connected", port |-> port]
         /\ UNCHANGED pendingRequests
         /\ responses' = << >>
         /\ broadcastConnectionStatus(nativeConnection)
    ELSE /\ cleanupPending("Native host reported invalid state", << >>)
         /\ nativeConnection' = Disconnected
         /\ broadcastConnectionStatus(nativeConnection)

NativePong(message, port) ==
    IF message.valid
    THEN /\ nativeConnection' = [status |-> "connected", port |-> port]
         /\ UNCHANGED pendingRequests
         /\ responses' = << >>
         /\ broadcastConnectionStatus(nativeConnection')
    ELSE /\ cleanupPending("Native host reported invalid state", << >>)
         /\ nativeConnection' = Disconnected
         /\ broadcastConnectionStatus(nativeConnection')

\* Mutant of NativeList: the frame resolves the oldest pending entry, whatever
\* its id.
NativeList_ResolvesOldest(message, responseType) ==
    /\ IF pendingRequests # << >>
       THEN /\ responses' = << Response(Head(pendingRequests).respond,
                                        responseType, "", NoId) >>
            /\ pendingRequests' = Tail(pendingRequests)
       ELSE /\ responses' = << >>
            /\ UNCHANGED pendingRequests
    /\ broadcasts' = << >>
    /\ UNCHANGED nativeConnection

\* native.patternsList and native.contextsList share their shape.
NativeList(message, responseType) ==
    /\ IF HasPending(pendingRequests, message.id)
       THEN /\ responses' = << Response(GetPending(pendingRequests, message.id),
                                        responseType, "", NoId) >>
            /\ pendingRequests' = DeletePending(pendingRequests, message.id)
       ELSE /\ responses' = << >>
            /\ UNCHANGED pendingRequests
    /\ broadcasts' = << >>
    /\ UNCHANGED nativeConnection

\* Mutant of NativeContent: the frame also drops the entry of its id, as the
\* terminal frames do.
NativeContent_DropsEntry(message) ==
    /\ broadcasts' = << [type |-> "internal.processingContent", status |-> "content", id |-> NoId] >>
    /\ pendingRequests' = DeletePending(pendingRequests, message.id)
    /\ responses' = << >>
    /\ UNCHANGED nativeConnection

NativeContent(message) ==
    /\ broadcasts' = << [type |-> "internal.processingContent", status |-> "content", id |-> NoId] >>
    /\ responses' = << >>
    /\ UNCHANGED <<nativeConnection, pendingRequests>>

NativeDone(message) ==
    /\ broadcasts' = << [type |-> "internal.processingDone", status |-> "", id |-> NoId] >>
    /\ pendingRequests' = DeletePending(pendingRequests, message.id)
    /\ responses' = << >>
    /\ UNCHANGED nativeConnection

NativeError(message) ==
    /\ broadcasts' = << [type |-> "internal.processingError", status |-> "", id |-> NoId] >>
    /\ pendingRequests' = DeletePending(pendingRequests, message.id)
    /\ responses' = << >>
    /\ UNCHANGED nativeConnection

\* A type the schema accepts and the switch has no case for (native.cancelled).
NativeNoCase(message) ==
    /\ broadcasts' = << >>
    /\ responses' = << >>
    /\ UNCHANGED <<nativeConnection, pendingRequests>>

handleNativeMessage(message, port) ==
    CASE message.type = "native.pong" -> NativePong(message, port)
      [] message.type = "native.patternsList" -> NativeList(message, "internal.patternsList")
      [] message.type = "native.contextsList" -> NativeList(message, "internal.contextsList")
      [] message.type = "native.content" -> NativeContent(message)
      [] message.type = "native.done" -> NativeDone(message)
      [] message.type = "native.error" -> NativeError(message)
      [] OTHER -> NativeNoCase(message)

----------------------------------------------------------------------------
(* background.ts: handleMessage, one definition per case.  sendResponse is *)
(* the tracked request whose callback it is, or NoReq for the requests     *)
(* that are answered within the same run.  internal.capturePage talks to   *)
(* the active tab only and touches none of the state modelled here.        *)

\* Mutant of MessageConnectionStatus: a connection that has a port is
\* reported as connected.
MessageConnectionStatus_ReportsConnecting(sendResponse) ==
    /\ responses' = << Response(sendResponse, "internal.connectionStatus",
                                IF nativeConnection.status # "disconnected"
                                THEN "connected" ELSE "disconnected", NoId) >>
    /\ broadcasts' = << >>
    /\ UNCHANGED <<nativeConnection, pendingRequests, ports, handshake, requests>>

MessageConnectionStatus(sendResponse) ==
    /\ responses' = << Response(sendResponse, "internal.connectionStatus",
                                IF nativeConnection.status = "connected"
                                THEN "connected" ELSE "disconnected", NoId) >>
    /\ broadcasts' = << >>
    /\ UNCHANGED <<nativeConnection, pendingRequests, ports, handshake, requests>>

\* Mutant of MessageReconnectNative: the current port is not disconnected.
MessageReconnectNative_KeepsPort(sendResponse) ==
    /\ HasFreshPort
    /\ cleanupPending("Connection reset during reconnection",
                      << Response(sendResponse, "internal.connectionStatus",
                                  "disconnected", NoId) >>)
    /\ broadcastConnectionStatus(Disconnected)
    /\ connectNative(Disconnected, ports)
    /\ UNCHANGED requests

\* port.disconnect() does not notify the side that called it.
MessageReconnectNative(sendResponse) ==
    /\ HasFreshPort
    /\ LET closed == IF nativeConnection.status \in {"connected", "connecting"}
                     THEN [ports EXCEPT ![nativeConnection.port] = "closed"]
                     ELSE ports
       IN /\ cleanupPending("Connection reset during reconnection",
                            << Response(sendResponse, "internal.connectionStatus",
                                        "disconnected", NoId) >>)
          /\ broadcastConnectionStatus(Disconnected)
          /\ connectNative(Disconnected, closed)
    /\ UNCHANGED requests

\* Mutant of MessageRequest: only the disconnected state is turned away.
MessageRequest_OnlyDisconnected(data, sendResponse) ==
    /\ IF nativeConnection.status = "disconnected"
       THEN /\ responses' = << Response(sendResponse, "internal.processingError",
                                        "Not connected to native host", NoId) >>
            /\ requests' = [requests EXCEPT ![sendResponse] = Returned]
       ELSE /\ responses' = << >>
            /\ requests' = [requests EXCEPT ![sendResponse] =
                                [type |-> data.type, pc |-> "loading"]]
    /\ broadcasts' = << >>
    /\ UNCHANGED <<nativeConnection, pendingRequests, ports, handshake>>

\* The part of the three request handlers before `await loadFabricSettings()`.
MessageRequest(data, sendResponse) ==
    /\ IF nativeConnection.status # "connected"
       THEN /\ responses' = << Response(sendResponse, "internal.processingError",
                                        "Not connected to native host", NoId) >>
            /\ requests' = [requests EXCEPT ![sendResponse] = Returned]
       ELSE /\ responses' = << >>
            /\ requests' = [requests EXCEPT ![sendResponse] =
                                [type |-> data.type, pc |-> "loading"]]
    /\ broadcasts' = << >>
    /\ UNCHANGED <<nativeConnection, pendingRequests, ports, handshake>>

handleMessage(data, sendResponse) ==
    CASE data.type = "internal.connectionStatus" -> MessageConnectionStatus(sendResponse)
      [] data.type = "internal.reconnectNative" -> MessageReconnectNative(sendResponse)
      [] data.type \in NativeBoundTypes -> MessageRequest(data, sendResponse)

\* Mutant of SendRequest: the frame is posted and the callback is not stored.
SendRequest_NoSet(r, stored) ==
    LET id == generateRequestId(r) IN
    IF nativeConnection.status = "disconnected"
    THEN /\ responses' = << Response(r, "internal.processingError",
                                     "Failed to send request to native host", NoId) >>
         /\ posted' = << >>
         /\ UNCHANGED pendingRequests
         /\ requests' = [requests EXCEPT ![r] = Returned]
    ELSE /\ posted' = << Post(nativeConnection.port, NativeTypeOf(requests[r].type),
                              id, NoId, stored) >>
         /\ UNCHANGED pendingRequests
         /\ responses' = << >>
         /\ requests' = [requests EXCEPT ![r] = Returned]

\* The part of the three request handlers after `await loadFabricSettings()`:
\* the frame is built with a fresh id and posted on nativeConnection.port, then
\* the callback is stored.  When the connection is disconnected by now there
\* is no port, the post throws inside the try block and the catch answers.
SendRequest(r, stored) ==
    LET id == generateRequestId(r) IN
    IF nativeConnection.status = "disconnected"
    THEN /\ responses' = << Response(r, "internal.processingError",
                                     "Failed to send request to native host", NoId) >>
         /\ posted' = << >>
         /\ UNCHANGED pendingRequests
         /\ requests' = [requests EXCEPT ![r] = Returned]
    ELSE /\ posted' = << Post(nativeConnection.port, NativeTypeOf(requests[r].type),
                              id, NoId, stored) >>
         /\ pendingRequests' = Append(pendingRequests,
                                      [id |-> id, respond |-> r, type |-> requests[r].type])
         /\ responses' = << >>
         /\ requests' = [requests EXCEPT ![r] = Returned]

----------------------------------------------------------------------------
(* The listeners and continuations the event loop runs                     *)

\* What every run adds to the per-callback call counts.
CountCalls == called' = [r \in Reqs |-> called[r] + Calls(responses', r)]

\* The tracked request a new native-bound message gets: the next unused one.
NextReq == CHOOSE r \in Reqs : requests[r].pc = "new" /\ \A q \in 1..(r - 1) : requests[q].pc # "new"
HasNextReq == \E r \in Reqs : requests[r].pc = "new"

\* chrome.runtime.onInstalled listener (after setupSidebar).
OnInstalled ==
    /\ nativeConnection.status = "disconnected" => HasFreshPort
    /\ connectNative(nativeConnection, ports)
    /\ lastEvent' = Event("onInstalled", NoPort, "none", NoId, FALSE, NoReq, "none")
    /\ broadcasts' = << >> /\ posted' = << >> /\ responses' = << >>
    /\ UNCHANGED <<pendingRequests, pings, requests, called>>
    /\ UNCHANGED exceptBackground

\* chrome.runtime.onStartup listener (after setupSidebar).
OnStartup ==
    /\ nativeConnection.status = "disconnected" => HasFreshPort
    /\ connectNative(nativeConnection, ports)
    /\ lastEvent' = Event("onStartup", NoPort, "none", NoId, FALSE, NoReq, "none")
    /\ broadcasts' = << >> /\ posted' = << >> /\ responses' = << >>
    /\ UNCHANGED <<pendingRequests, pings, requests, called>>
    /\ UNCHANGED exceptBackground

\* Continuation of startNativeHandshake(port) once the settings are loaded.
HandshakeContinue(port) ==
    /\ handshake[port] = "pending"
    /\ \E stored \in StorageValues : startNativeHandshake(port, stored)
    /\ lastEvent' = Event("startNativeHandshake", port, "none", NoId, FALSE, NoReq, "none")
    /\ broadcasts' = << >> /\ responses' = << >>
    /\ UNCHANGED <<nativeConnection, pendingRequests, ports, requests, called>>
    /\ UNCHANGED exceptBackground

\* Mutant of OnDisconnect: the listener starts a new connection attempt itself.
OnDisconnect_Reconnects(port) ==
    /\ ports[port] = "open"
    /\ HasFreshPort
    /\ cleanupPending("Connection disconnected", << >>)
    /\ broadcastConnectionStatus(Disconnected)
    /\ connectNative(Disconnected, [ports EXCEPT ![port] = "closed"])
    /\ lastEvent' = Event("onDisconnect", port, "none", NoId, FALSE, NoReq, "none")
    /\ posted' = << >>
    /\ CountCalls
    /\ UNCHANGED <<pings, requests>>
    /\ UNCHANGED exceptBackground

\* port.onDisconnect listener: the native host closed the port.
OnDisconnect(port) ==
    /\ ports[port] = "open"
    /\ ports' = [ports EXCEPT ![port] = "closed"]
    /\ cleanupPending("Connection disconnected", << >>)
    /\ nativeConnection' = Disconnected
    /\ broadcastConnectionStatus(nativeConnection')
    /\ lastEvent' = Event("onDisconnect", port, "none", NoId, FALSE, NoReq, "none")
    /\ posted' = << >>
    /\ CountCalls
    /\ UNCHANGED <<handshake, pings, requests>>
    /\ UNCHANGED exceptBackground

\* port.onMessage listener: a frame arrives on an open port.
OnNativeMessage(port, message) ==
    /\ ports[port] = "open"
    /\ IF NativeResponseSchema(message)
       THEN /\ handleNativeMessage(message, port)
            /\ lastEvent' = Event("handleNativeMessage", port, message.type, message.id,
                                  message.valid, NoReq, "none")
       ELSE /\ UNCHANGED <<nativeConnection, pendingRequests>>
            /\ broadcasts' = << >> /\ responses' = << >>
            /\ lastEvent' = Event("invalidNativeMessage", port, message.type, message.id,
                                  message.valid, NoReq, "none")
    /\ posted' = << >>
    /\ CountCalls
    /\ UNCHANGED <<ports, handshake, pings, requests>>
    /\ UNCHANGED exceptBackground

\* chrome.runtime.onMessage listener: a message from the UI arrives.
OnMessage(message) ==
    LET tracked == InternalRequestSchema(message) /\ message.type \in NativeBoundTypes
        sendResponse == IF tracked THEN NextReq ELSE NoReq IN
    /\ tracked => HasNextReq
    /\ IF InternalRequestSchema(message)
       THEN /\ handleMessage(message, sendResponse)
            /\ lastEvent' = Event("onMessage", NoPort, message.type, message.requestId,
                                  message.content, sendResponse, "true")
       ELSE /\ responses' = << Response(sendResponse, "internal.processingError",
                                        "Invalid request format", NoId) >>
            /\ broadcasts' = << >>
            /\ lastEvent' = Event("onMessage", NoPort, message.type, message.requestId,
                                  message.content, sendResponse, "false")
            /\ UNCHANGED <<nativeConnection, pendingRequests, ports, handshake, requests>>
    /\ posted' = << >>
    /\ CountCalls
    /\ UNCHANGED pings
    /\ UNCHANGED exceptBackground

\* Continuation of a request handler once the settings are loaded.
SettingsLoaded(r) ==
    /\ requests[r].pc = "loading"
    /\ \E stored \in StorageValues : SendRequest(r, stored)
    /\ lastEvent' = Event("sendRequest", NoPort, requests[r].type, generateRequestId(r),
                          FALSE, r, "none")
    /\ broadcasts' = << >>
    /\ CountCalls
    /\ UNCHANGED <<nativeConnection, ports, handshake, pings>>
    /\ UNCHANGED exceptBackground

Next ==
    \/ OnInstalled
    \/ OnStartup
    \/ \E port \in Ports : HandshakeContinue(port)
    \/ \E port \in Ports : OnDisconnect(port)
    \/ \E port \in Ports : \E message \in NativeFrames : OnNativeMessage(port, message)
    \/ \E message \in InternalMessages : OnMessage(message)
    \/ \E r \in Reqs : SettingsLoaded(r)

Spec == Init /\ [][Next]_vars

\* The event loop does run the continuation of every await: the settings
\* load always settles (src/extension/src/shared/settings.ts:55-74).  Nothing
\* obliges the native host or the UI to send anything.
FairSpec ==
    /\ Spec
    /\ \A port \in Ports : WF_vars(HandshakeContinue(port))
    /\ \A r \in Reqs : WF_vars(SettingsLoaded(r))

TypeOK ==
    /\ nativeConnection.status \in {"disconnected", "connecting", "connected"}
    /\ nativeConnection.status = "disconnected" <=> nativeConnection.port = NoPort
    /\ \A i \in 1..Len(pendingRequests) : pendingRequests[i].respond \in Reqs

----------------------------------------------------------------------------
(* Sidebar.svelte: what the sidebar's chrome.runtime.onMessage listener    *)
(* does with a broadcast.  A processing state is a record [type, requestId,*)
(* output, message]; output is the sequence of content chunks received     *)
(* and the fields a variant does not have are NoId, << >> and "".          *)

\* The states in which the sidebar has an operation under way.
ProcessingStates ==
    [type : {"processing", "cancelling"}, requestId : Reqs,
     output : {<< >>, << "content" >>}, message : {""}]

\* getRequestId(state); NoId stands for null
getRequestId(state) ==
    IF state.type \in {"capturing", "processing", "cancelling"} THEN state.requestId ELSE NoId

\* getOutput(state)
getOutput(state) ==
    IF state.type \in {"processing", "cancelling", "completed", "error"}
    THEN state.output ELSE << >>

\* Mutant of SidebarHandleMessage: a chunk is put in front of the output.
SidebarHandleMessage_Prepends(state, message) ==
    IF message.id # NoId /\ message.id # getRequestId(state)
    THEN state
    ELSE CASE message.type = "internal.processingContent" ->
                 IF state.type \in {"processing", "cancelling"}
                 THEN [state EXCEPT !.output = << message.status >> \o @]
                 ELSE state
           [] message.type = "internal.processingDone" ->
                 IF state.type \in {"processing", "cancelling"}
                 THEN [type |-> "completed", requestId |-> NoId,
                       output |-> state.output, message |-> ""]
                 ELSE state
           [] message.type = "internal.processingError" ->
                 [type |-> "error", requestId |-> NoId,
                  output |-> getOutput(state), message |-> message.status]
           [] OTHER -> state

\* Mutant of SidebarHandleMessage: the id of the message is not compared with
\* the current request id.
SidebarHandleMessage_NoIdFilter(state, message) ==
    CASE message.type = "internal.processingContent" ->
            IF state.type \in {"processing", "cancelling"}
            THEN [state EXCEPT !.output = Append(@, message.status)]
            ELSE state
      [] message.type = "internal.processingDone" ->
            IF state.type \in {"processing", "cancelling"}
            THEN [type |-> "completed", requestId |-> NoId,
                  output |-> state.output, message |-> ""]
            ELSE state
      [] message.type = "internal.processingError" ->
            [type |-> "error", requestId |-> NoId,
             output |-> getOutput(state), message |-> message.status]
      [] OTHER -> state

\* handleMessage of the sidebar: a message with an id other than the current
\* request id is dropped, a message without id is always taken.  The payload
\* of a broadcast (the content of a chunk, the message of an error) is its
\* status field.
SidebarHandleMessage(state, message) ==
    IF message.id # NoId /\ message.id # getRequestId(state)
    THEN state
    ELSE CASE message.type = "internal.processingContent" ->
                 IF state.type \in {"processing", "cancelling"}
                 THEN [state EXCEPT !.output = Append(@, message.status)]
                 ELSE state
           [] message.type = "internal.processingDone" ->
                 IF state.type \in {"processing", "cancelling"}
                 THEN [type |-> "completed", requestId |-> NoId,
                       output |-> state.output, message |-> ""]
                 ELSE state
           [] message.type = "internal.processingError" ->
                 [type |-> "error", requestId |-> NoId,
                  output |-> getOutput(state), message |-> message.status]
           [] OTHER -> state

\* The sidebar state after the listener has seen the messages in order.
RECURSIVE Delivered(_, _)
Delivered(state, messages) ==
    IF messages = << >> THEN state
    ELSE Delivered(SidebarHandleMessage(state, Head(messages)), Tail(messages))

----------------------------------------------------------------------------
(* The native host: request router and process supervisor.  Its code (the  *)
(* Rust crate under host/) is not among the sources, so this section       *)
(* follows sections 3, 4.3, 4.4 and 7 of the specification.  The peer      *)
(* draws a fresh correlation id for every operation, so the id of an       *)
(* operation that has ended does not come again; a processContent request  *)
(* can come again while its operation is still in flight.                  *)

TerminalFrameTypes == {"native.done", "native.error", "native.cancelled"}

\* The id of a cancelProcess request: its own, different from every operation's.
CancelId == MaxOps + 1
\* An id no processContent request was ever sent with.
UnknownOpId == MaxOps + 2

Frame(type, id, requestId) == [type |-> type, id |-> id, requestId |-> requestId]

HostEvent(op, id, requestId, emitted) ==
    [op |-> op, id |-> id, requestId |-> requestId, emitted |-> emitted]

\* The operation in flight under a correlation id.
IsInFlight(id) == \E o \in inFlight : o.id = id
OperationOf(id) == CHOOSE o \in inFlight : o.id = id

\* The operation of this id has emitted its terminal frame.
HasEnded(id) == \E i \in 1..Len(stream[id]) : stream[id][i] \in TerminalFrameTypes

\* Mutant of RouteProcessContent: a request whose id is in flight spawns a new
\* process under that id.
RouteProcessContent_AcceptsDuplicate(id, spawns) ==
    /\ ~HasEnded(id)
    /\ IF spawns
       THEN /\ inFlight' = inFlight \cup {[id |-> id, cursor |-> 0]}
            /\ UNCHANGED stream
            /\ hostEvent' = HostEvent("processContent", id, NoId, << >>)
       ELSE /\ UNCHANGED inFlight
            /\ stream' = [stream EXCEPT ![id] = Append(@, "native.error")]
            /\ hostEvent' = HostEvent("processContent", id, NoId,
                                      << Frame("native.error", id, NoId) >>)
    /\ UNCHANGED exceptHost

\* A processContent request arrives.  A request whose id has an operation in
\* flight is rejected with an error frame for that id and the operation goes
\* on; otherwise the supervisor spawns the process, and answers with one
\* error frame when it cannot be spawned.
RouteProcessContent(id, spawns) ==
    /\ ~HasEnded(id)
    /\ IF IsInFlight(id)
       THEN /\ UNCHANGED <<inFlight, stream>>
            /\ hostEvent' = HostEvent("duplicateProcessContent", id, NoId,
                                      << Frame("native.error", id, NoId) >>)
       ELSE IF spawns
       THEN /\ inFlight' = inFlight \cup {[id |-> id, cursor |-> 0]}
            /\ UNCHANGED stream
            /\ hostEvent' = HostEvent("processContent", id, NoId, << >>)
       ELSE /\ UNCHANGED inFlight
            /\ stream' = [stream EXCEPT ![id] = Append(@, "native.error")]
            /\ hostEvent' = HostEvent("processContent", id, NoId,
                                      << Frame("native.error", id, NoId) >>)
    /\ UNCHANGED exceptHost

\* Mutant of StreamLine: a line of a process that is no longer in flight is
\* still emitted.
StreamLine_AfterEnd(id) ==
    /\ Len(SelectSeq(stream[id], LAMBDA t : t = "native.content")) < MaxLines
    /\ IsInFlight(id) \/ HasEnded(id)
    /\ inFlight' = {IF o.id = id THEN [o EXCEPT !.cursor = @ + 1] ELSE o : o \in inFlight}
    /\ stream' = [stream EXCEPT ![id] = Append(@, "native.content")]
    /\ hostEvent' = HostEvent("line", id, NoId, << Frame("native.content", id, NoId) >>)
    /\ UNCHANGED exceptHost

\* The process of an operation in flight writes a line to its stdout: one
\* content frame is emitted for it.
StreamLine(id) ==
    /\ IsInFlight(id)
    /\ OperationOf(id).cursor < MaxLines
    /\ inFlight' = {IF o.id = id THEN [o EXCEPT !.cursor = @ + 1] ELSE o : o \in inFlight}
    /\ stream' = [stream EXCEPT ![id] = Append(@, "native.content")]
    /\ hostEvent' = HostEvent("line", id, NoId, << Frame("native.content", id, NoId) >>)
    /\ UNCHANGED exceptHost

\* The process of an operation in flight exits: one done frame, or one error
\* frame when it failed (nonzero exit code) without having produced output.
ProcessExit(id, failed) ==
    /\ IsInFlight(id)
    /\ LET type == IF failed /\ OperationOf(id).cursor = 0
                   THEN "native.error" ELSE "native.done"
       IN /\ stream' = [stream EXCEPT ![id] = Append(@, type)]
          /\ hostEvent' = HostEvent("exit", id, NoId, << Frame(type, id, NoId) >>)
    /\ inFlight' = {o \in inFlight : o.id # id}
    /\ UNCHANGED exceptHost

\* Mutant of RouteCancelProcess: every cancel request is answered with a
\* cancelled frame.
RouteCancelProcess_AlwaysCancelled(requestId) ==
    /\ inFlight' = {o \in inFlight : o.id # requestId}
    /\ stream' = [id \in OpIds |-> IF id = requestId /\ IsInFlight(id)
                                    THEN Append(stream[id], "native.cancelled")
                                    ELSE stream[id]]
    /\ hostEvent' = HostEvent("cancelProcess", CancelId, requestId,
                              << Frame("native.cancelled", CancelId, requestId) >>)
    /\ UNCHANGED exceptHost

\* A cancelProcess request arrives.  When the named operation is in flight its
\* process is terminated, nothing more is emitted for it and one cancelled
\* frame is written; when it is not, the request is answered with an error.
RouteCancelProcess(requestId) ==
    /\ IF IsInFlight(requestId)
       THEN /\ inFlight' = {o \in inFlight : o.id # requestId}
            /\ stream' = [stream EXCEPT ![requestId] = Append(@, "native.cancelled")]
            /\ hostEvent' = HostEvent("cancelProcess", CancelId, requestId,
                                      << Frame("native.cancelled", CancelId, requestId) >>)
       ELSE /\ UNCHANGED <<inFlight, stream>>
            /\ hostEvent' = HostEvent("cancelUnknown", CancelId, requestId,
                                      << Frame("native.error", CancelId, NoId) >>)
    /\ UNCHANGED exceptHost

HostNext ==
    \/ \E id \in OpIds : \E spawns \in BOOLEAN : RouteProcessContent(id, spawns)
    \/ \E id \in OpIds : StreamLine(id)
    \/ \E id \in OpIds : \E failed \in BOOLEAN : ProcessExit(id, failed)
    \/ \E requestId \in OpIds \cup {UnknownOpId} : RouteCancelProcess(requestId)

HostSpec == Init /\ [][HostNext]_vars

----------------------------------------------------------------------------
(* shared/connection.ts: the helpers a page uses to talk to the background *)
(* script.  _resetConnectionState, a hook of the tests, is left out.       *)

NothingDelivered == [l \in Listeners |-> << >>]

\* Mutant of sendSafely: an error other than "Receiving end does not exist"
\* is thrown on.
sendSafely_Rethrows(outcome) ==
    IF outcome.kind = "resolved"
    THEN Result(FALSE, outcome.response, "")
    ELSE IF outcome.error # "not an object" /\ outcome.error = "Receiving end does not exist"
    THEN Result(FALSE, Undefined, "")
    ELSE Result(TRUE, Undefined, "")

\* sendSafely: the response of chrome.runtime.sendMessage, and undefined from
\* both paths of the catch block.
sendSafely(outcome) ==
    IF outcome.kind = "resolved"
    THEN Result(FALSE, outcome.response, "")
    ELSE IF outcome.error # "not an object" /\ outcome.error = "Receiving end does not exist"
    THEN Result(FALSE, Undefined, "")
    ELSE Result(FALSE, Undefined, "")

\* getConnectionStatus: the status of a connectionStatus response, and
\* 'disconnected' for everything else.
getConnectionStatus(outcome) ==
    LET sent == sendSafely(outcome)
        response == sent.response
    IN IF sent.threw
       THEN Result(TRUE, Undefined, "")
       ELSE IF response # Undefined /\ response.type = "internal.connectionStatus"
       THEN Result(FALSE, response, response.status)
       ELSE Result(FALSE, response, "disconnected")

\* Mutant of handleInternalMessage: the type of the message is not looked at.
handleInternalMessage_AnyType(message) ==
    [l \in Listeners |-> IF l \in connectionListeners THEN << message.status >> ELSE << >>]

\* handleInternalMessage: a connectionStatus message that has a status is
\* handed to every listener of the set.
handleInternalMessage(message) ==
    IF message # Undefined /\ message.type = "internal.connectionStatus" /\ message.status # ""
    THEN [l \in Listeners |-> IF l \in connectionListeners THEN << message.status >> ELSE << >>]
    ELSE NothingDelivered

AddConnectionListener(listener) ==
    /\ connectionListeners' = connectionListeners \cup {listener}
    /\ IF ~messageListenerRegistered
       THEN /\ chromeMessageListener' = "handleInternalMessage"
            /\ onMessageListeners' = onMessageListeners \cup {"handleInternalMessage"}
            /\ messageListenerRegistered' = TRUE
            /\ connectionEvent' = ConnectionEvent("addConnectionListener", listener, NoMessage,
                                                  1, 0, NothingDelivered, NoOutcome, NoResult)
       ELSE /\ UNCHANGED <<chromeMessageListener, onMessageListeners, messageListenerRegistered>>
            /\ connectionEvent' = ConnectionEvent("addConnectionListener", listener, NoMessage,
                                                  0, 0, NothingDelivered, NoOutcome, NoResult)
    /\ UNCHANGED exceptConnection

\* Mutant of RemoveConnectionListener: the handler is taken off chrome's event
\* whenever a listener is removed.
RemoveConnectionListener_AlwaysUnregisters(listener) ==
    /\ connectionListeners' = connectionListeners \ {listener}
    /\ IF messageListenerRegistered /\ chromeMessageListener # "null"
       THEN /\ onMessageListeners' = onMessageListeners \ {chromeMessageListener}
            /\ messageListenerRegistered' = FALSE
            /\ chromeMessageListener' = "null"
            /\ connectionEvent' = ConnectionEvent("removeConnectionListener", listener, NoMessage,
                                                  0, 1, NothingDelivered, NoOutcome, NoResult)
       ELSE /\ UNCHANGED <<chromeMessageListener, onMessageListeners, messageListenerRegistered>>
            /\ connectionEvent' = ConnectionEvent("removeConnectionListener", listener, NoMessage,
                                                  0, 0, NothingDelivered, NoOutcome, NoResult)
    /\ UNCHANGED exceptConnection

RemoveConnectionListener(listener) ==
    /\ connectionListeners' = connectionListeners \ {listener}
    /\ IF connectionListeners' = {} /\ messageListenerRegistered /\ chromeMessageListener # "null"
       THEN /\ onMessageListeners' = onMessageListeners \ {chromeMessageListener}
            /\ messageListenerRegistered' = FALSE
            /\ chromeMessageListener' = "null"
            /\ connectionEvent' = ConnectionEvent("removeConnectionListener", listener, NoMessage,
                                                  0, 1, NothingDelivered, NoOutcome, NoResult)
       ELSE /\ UNCHANGED <<chromeMessageListener, onMessageListeners, messageListenerRegistered>>
            /\ connectionEvent' = ConnectionEvent("removeConnectionListener", listener, NoMessage,
                                                  0, 0, NothingDelivered, NoOutcome, NoResult)
    /\ UNCHANGED exceptConnection

\* chrome.runtime.onMessage fires in the page: every handler it holds is run.
OnRuntimeMessage(message) ==
    /\ connectionEvent' =
          ConnectionEvent("onMessage", NoListener, message, 0, 0,
                          IF "handleInternalMessage" \in onMessageListeners
                          THEN handleInternalMessage(message) ELSE NothingDelivered,
                          NoOutcome, NoResult)
    /\ UNCHANGED <<connectionListeners, messageListenerRegistered, chromeMessageListener,
                   onMessageListeners>>
    /\ UNCHANGED exceptConnection

\* A page asks for the connection status and the send ends in this outcome.
GetConnectionStatus(outcome) ==
    /\ connectionEvent' =
          ConnectionEvent("getConnectionStatus", NoListener, NoMessage, 0, 0,
                          NothingDelivered, outcome, getConnectionStatus(outcome))
    /\ UNCHANGED <<connectionListeners, messageListenerRegistered, chromeMessageListener,
                   onMessageListeners>>
    /\ UNCHANGED exceptConnection

ConnectionNext ==
    \/ \E listener \in Listeners : AddConnectionListener(listener)
    \/ \E listener \in Listeners : RemoveConnectionListener(listener)
    \/ \E message \in RuntimeMessages : OnRuntimeMessage(message)
    \/ \E outcome \in SendOutcomes : GetConnectionStatus(outcome)

ConnectionSpec == Init /\ [][ConnectionNext]_vars

----------------------------------------------------------------------------
(* debounce.  Time is a clock of ticks; window.setTimeout is punctual, as   *)
(* under the fake timers of the tests: a timer that is due runs before the *)
(* clock moves on and before any other call is made.                       *)

\* A timer is due.
TimerDue == \E t \in timers : t.due <= now

\* window.clearTimeout(id)
clearTimeout(pending, id) == {t \in pending : t.id # id}

\* Mutant of DebouncedCall: the timer of the previous call is not cleared.
DebouncedCall_KeepsTimer(args) ==
    /\ ~TimerDue
    /\ Len(SelectSeq(history, LAMBDA e : e.kind = "call")) < MaxCalls
    /\ now + Delay <= MaxTime
    /\ timers' = timers \cup {[id |-> nextTimeoutId, due |-> now + Delay, args |-> args]}
    /\ timeoutId' = nextTimeoutId
    /\ nextTimeoutId' = nextTimeoutId + 1
    /\ history' = Append(history, [kind |-> "call", at |-> now, args |-> args])
    /\ UNCHANGED now
    /\ UNCHANGED exceptDebounce

\* The debounced function is called: the remembered timer, if any, is
\* cleared and a new one is set for the delay.
DebouncedCall(args) ==
    /\ ~TimerDue
    /\ Len(SelectSeq(history, LAMBDA e : e.kind = "call")) < MaxCalls
    /\ now + Delay <= MaxTime
    /\ timers' = (IF timeoutId # NoTimeout THEN clearTimeout(timers, timeoutId) ELSE timers)
                    \cup {[id |-> nextTimeoutId, due |-> now + Delay, args |-> args]}
    /\ timeoutId' = nextTimeoutId
    /\ nextTimeoutId' = nextTimeoutId + 1
    /\ history' = Append(history, [kind |-> "call", at |-> now, args |-> args])
    /\ UNCHANGED now
    /\ UNCHANGED exceptDebounce

\* A timer fires: the wrapped function is invoked with the arguments of the
\* call that set the timer, and timeoutId becomes undefined.
TimerFires(id) ==
    /\ \E t \in timers :
          /\ t.id = id
          /\ t.due <= now
          /\ timers' = timers \ {t}
          /\ history' = Append(history, [kind |-> "invoke", at |-> now, args |-> t.args])
    /\ timeoutId' = NoTimeout
    /\ UNCHANGED <<now, nextTimeoutId>>
    /\ UNCHANGED exceptDebounce

\* Time passes.
Tick ==
    /\ ~TimerDue
    /\ now < MaxTime
    /\ now' = now + 1
    /\ UNCHANGED <<timeoutId, timers, nextTimeoutId, history>>
    /\ UNCHANGED exceptDebounce

DebounceNext ==
    \/ \E args \in Args : DebouncedCall(args)
    \/ \E id \in TimeoutIds : TimerFires(id)
    \/ Tick

DebounceSpec == Init /\ [][DebounceNext]_vars

----------------------------------------------------------------------------
(* Sidebar.svelte: Go, Cancel and the runtime messages.  Each handler is   *)
(* split at its await: the click, and the continuation with the answer.    *)
(* The answers are whatever the responder sends back; undefined stands for *)
(* a failed send.                                                          *)

\* isProcessing(state)
isProcessing(state) == state.type \in {"capturing", "processing", "cancelling"}

\* The control the template offers: Cancel while processing or cancelling,
\* Go otherwise.
Control(state) == IF state.type \in {"processing", "cancelling"} THEN "Cancel" ELSE "Go"

\* The messages of answers to internal.cancelProcess.
NotFoundMessage == "Request not found or already completed"
CancelErrorMessages == {NotFoundMessage, "Invalid request format", "Cancel failed"}

\* response.message.includes('not found or already completed')
IncludesNotFound(message) == message = NotFoundMessage

\* `Failed to cancel: ${response.message}`
FailedToCancel(message) ==
    CASE message = "Invalid request format" -> "Failed to cancel: Invalid request format"
      [] message = "Cancel failed" -> "Failed to cancel: Cancel failed"
      [] OTHER -> "Failed to cancel: Request not found or already completed"

\* The answers a cancel request can get.
CancelAnswers ==
    {UndefinedAnswer, Answer("internal.connectionStatus", NoId, "")}
    \cup {Answer("internal.processingCancelled", id, "") : id \in GoIds}
    \cup {Answer("internal.processingError", NoId, m) : m \in CancelErrorMessages}

\* The answers a capturePage request can get.
CaptureAnswers ==
    {UndefinedAnswer, Answer("internal.connectionStatus", NoId, ""),
     Answer("internal.pageContent", NoId, ""),
     Answer("internal.processingError", NoId, "No active tab")}

\* The contents a processingContent message can carry (message.content).
Chunks == {"content", "more"}

\* The runtime messages the sidebar's listener sees: with the id of an
\* operation or without one.
SidebarMessages ==
    {[type |-> "internal.processingContent", status |-> chunk, id |-> id] :
        chunk \in Chunks, id \in GoIds \cup {NoId}}
    \cup
    {[type |-> t, status |-> "", id |-> id] :
        t \in {"internal.processingDone", "internal.processingError",
               "internal.connectionStatus"},
        id \in GoIds \cup {NoId}}

\* Go is clicked (or handleGo called): nothing while an operation runs or the
\* custom prompt is missing; else the state becomes capturing under a new
\* request id and the page is asked for.
HandleGo(promptMissing) ==
    /\ nextRequestId <= MaxGo
    /\ IF isProcessing(processingState) \/ promptMissing
       THEN /\ UNCHANGED <<processingState, pendingGo, nextRequestId>>
            /\ sidebarSent' = << >>
            /\ sidebarEvent' = SidebarEvent("handleGo", NoId, << >>, NoAnswer)
       ELSE /\ processingState' = State("capturing", nextRequestId, << >>, "")
            /\ pendingGo' = pendingGo \cup {nextRequestId}
            /\ nextRequestId' = nextRequestId + 1
            /\ sidebarSent' = << SidebarRequest("internal.capturePage", NoId) >>
            /\ sidebarEvent' = SidebarEvent("handleGo", nextRequestId, << >>, NoAnswer)
    /\ UNCHANGED pendingCancel
    /\ UNCHANGED exceptSidebar

\* handleGo after its await: the answer to capturePage is in.
HandleGoContinue(requestId, pageResponse) ==
    /\ requestId \in pendingGo
    /\ pendingGo' = pendingGo \ {requestId}
    /\ sidebarEvent' = SidebarEvent("captureAnswered", requestId, << >>, pageResponse)
    /\ CASE pageResponse = UndefinedAnswer ->
              /\ processingState' = State("error", NoId, << >>,
                                          "Unable to communicate with extension background")
              /\ sidebarSent' = << >>
         [] pageResponse.type = "internal.processingError" ->
              /\ processingState' = State("error", NoId, << >>, pageResponse.message)
              /\ sidebarSent' = << >>
         [] pageResponse.type = "internal.pageContent" ->
              /\ processingState' = State("processing", requestId, << >>, "")
              /\ sidebarSent' = << SidebarRequest("internal.processContent", NoId) >>
         [] OTHER ->
              /\ UNCHANGED processingState
              /\ sidebarSent' = << >>
    /\ UNCHANGED <<pendingCancel, nextRequestId>>
    /\ UNCHANGED exceptSidebar

\* chrome.runtime.onMessage fires in the sidebar.
SidebarOnMessage(message) ==
    /\ message.type = "internal.processingContent" => Len(processingState.output) < MaxOutput
    /\ processingState' = SidebarHandleMessage(processingState, message)
    /\ sidebarSent' = << >>
    /\ sidebarEvent' = SidebarEvent("handleMessage", message.id, << >>,
                                    Answer(message.type, message.id, message.status))
    /\ UNCHANGED <<pendingGo, pendingCancel, nextRequestId>>
    /\ UNCHANGED exceptSidebar

\* Mutant of HandleCancel: it also acts while the state is cancelling.
HandleCancel_AlsoWhileCancelling ==
    /\ IF processingState.type \notin {"processing", "cancelling"}
       THEN /\ UNCHANGED <<processingState, pendingCancel>>
            /\ sidebarSent' = << >>
            /\ sidebarEvent' = SidebarEvent("handleCancel", NoId, << >>, NoAnswer)
       ELSE LET idToCancel == processingState.requestId
                currentOutput == processingState.output
            IN /\ processingState' = State("cancelling", idToCancel, currentOutput, "")
               /\ pendingCancel' = pendingCancel \cup
                                      {[idToCancel |-> idToCancel, currentOutput |-> currentOutput]}
               /\ sidebarSent' = << SidebarRequest("internal.cancelProcess", idToCancel) >>
               /\ sidebarEvent' = SidebarEvent("handleCancel", idToCancel, currentOutput, NoAnswer)
    /\ UNCHANGED <<pendingGo, nextRequestId>>
    /\ UNCHANGED exceptSidebar

\* handleCancel up to its await: nothing unless the state is processing; else
\* the state becomes cancelling and internal.cancelProcess is sent.
HandleCancel ==
    /\ IF processingState.type # "processing"
       THEN /\ UNCHANGED <<processingState, pendingCancel>>
            /\ sidebarSent' = << >>
            /\ sidebarEvent' = SidebarEvent("handleCancel", NoId, << >>, NoAnswer)
       ELSE LET idToCancel == processingState.requestId
                currentOutput == processingState.output
            IN /\ processingState' = State("cancelling", idToCancel, currentOutput, "")
               /\ pendingCancel' = pendingCancel \cup
                                      {[idToCancel |-> idToCancel, currentOutput |-> currentOutput]}
               /\ sidebarSent' = << SidebarRequest("internal.cancelProcess", idToCancel) >>
               /\ sidebarEvent' = SidebarEvent("handleCancel", idToCancel, currentOutput, NoAnswer)
    /\ UNCHANGED <<pendingGo, nextRequestId>>
    /\ UNCHANGED exceptSidebar

\* Mutant of HandleCancelContinue: every processingError answer is taken for
\* a successful cancel.
HandleCancelContinue_ErrorIsCancelled(idToCancel, response) ==
    \E c \in pendingCancel :
    /\ c.idToCancel = idToCancel
    /\ pendingCancel' = pendingCancel \ {c}
    /\ sidebarEvent' = SidebarEvent("cancelAnswered", c.idToCancel, c.currentOutput, response)
    /\ sidebarSent' = << >>
    /\ IF \/ response.type = "internal.processingCancelled" /\ response.id = c.idToCancel
          \/ response.type = "internal.processingError"
       THEN processingState' = State("error", NoId, c.currentOutput, "Process was cancelled")
       ELSE UNCHANGED processingState
    /\ UNCHANGED <<pendingGo, nextRequestId>>
    /\ UNCHANGED exceptSidebar

\* handleCancel after its await: the answer to cancelProcess is in.  (The
\* catch block is not reached: sendSafely does not throw.)
HandleCancelContinue(idToCancel, response) ==
    \E c \in pendingCancel :
    /\ c.idToCancel = idToCancel
    /\ pendingCancel' = pendingCancel \ {c}
    /\ sidebarEvent' = SidebarEvent("cancelAnswered", c.idToCancel, c.currentOutput, response)
    /\ sidebarSent' = << >>
    /\ IF response.type = "internal.processingCancelled" /\ response.id = c.idToCancel
       THEN processingState' = State("error", NoId, c.currentOutput, "Process was cancelled")
       ELSE IF response.type = "internal.processingError"
       THEN IF IncludesNotFound(response.message)
            THEN processingState' = State("completed", NoId, c.currentOutput, "")
            ELSE processingState' = State("error", NoId, c.currentOutput,
                                          FailedToCancel(response.message))
       ELSE UNCHANGED processingState
    /\ UNCHANGED <<pendingGo, nextRequestId>>
    /\ UNCHANGED exceptSidebar

SidebarNext ==
    \/ \E promptMissing \in BOOLEAN : HandleGo(promptMissing)
    \/ \E requestId \in GoIds : \E pageResponse \in CaptureAnswers :
          HandleGoContinue(requestId, pageResponse)
    \/ \E message \in SidebarMessages : SidebarOnMessage(message)
    \/ HandleCancel
    \/ \E idToCancel \in GoIds : \E response \in CancelAnswers :
          HandleCancelContinue(idToCancel, response)

SidebarSpec == Init /\ [][SidebarNext]_vars

----------------------------------------------------------------------------
(* Preferences.svelte: saving the settings.  saveSettingsImmediate is      *)
(* split at its await; several runs can be waiting at once.                *)

FabricPaths == {"", "/usr/bin/fabric", "/new/path/fabric"}
FabricModels == {"", "gpt-4"}

\* The updates the page's controls save: a path, a model, or another setting.
SavedUpdates ==
    {Updates(p, UndefinedField) : p \in FabricPaths}
    \cup {Updates(UndefinedField, m) : m \in FabricModels}
    \cup {NoUpdates}

\* { ...settings, ...updates }
Merge(current, updates) ==
    [current EXCEPT !.fabricPath = IF updates.fabricPath = UndefinedField THEN @
                                   ELSE updates.fabricPath,
                    !.fabricModel = IF updates.fabricModel = UndefinedField THEN @
                                    ELSE updates.fabricModel]

ReconnectRequest == [type |-> "internal.reconnect_native"]

\* onMount: settings = await loadSettings()
LoadSettings ==
    /\ ~settings.loaded
    /\ settings' = [loaded |-> TRUE, fabricPath |-> storedSettings.fabricPath,
                    fabricModel |-> storedSettings.fabricModel]
    /\ preferencesSent' = << >>
    /\ preferencesEvent' = PreferencesEvent("loadSettings", 0, NoUpdates, TRUE, "")
    /\ UNCHANGED <<storedSettings, pendingSaves, nextSaveId, saveStatus, statusTimers>>
    /\ UNCHANGED exceptPreferences

\* Mutant of SaveSettingsImmediate: every update of fabricPath counts as a
\* change.
SaveSettingsImmediate_AnyPathUpdate(updates) ==
    /\ nextSaveId <= MaxSaves
    /\ preferencesSent' = << >>
    /\ IF ~settings.loaded
       THEN /\ preferencesEvent' = PreferencesEvent("returned", 0, updates, FALSE, "")
            /\ UNCHANGED <<pendingSaves, nextSaveId, saveStatus>>
       ELSE /\ saveStatus' = "saving"
            /\ pendingSaves' = pendingSaves \cup
                  {[id |-> nextSaveId, updates |-> updates,
                    newSettings |-> Merge(settings, updates),
                    fabricPathChanged |-> updates.fabricPath # UndefinedField,
                    loadedPath |-> settings.fabricPath]}
            /\ nextSaveId' = nextSaveId + 1
            /\ preferencesEvent' = PreferencesEvent("saveSettingsImmediate", nextSaveId,
                                                    updates, FALSE, settings.fabricPath)
    /\ UNCHANGED <<settings, storedSettings, statusTimers>>
    /\ UNCHANGED exceptPreferences

\* saveSettingsImmediate up to its await: nothing while settings is undefined;
\* else the new settings and fabricPathChanged are computed from the
\* settings held now and saveSettings is started.
SaveSettingsImmediate(updates) ==
    /\ nextSaveId <= MaxSaves
    /\ preferencesSent' = << >>
    /\ IF ~settings.loaded
       THEN /\ preferencesEvent' = PreferencesEvent("returned", 0, updates, FALSE, "")
            /\ UNCHANGED <<pendingSaves, nextSaveId, saveStatus>>
       ELSE /\ saveStatus' = "saving"
            /\ pendingSaves' = pendingSaves \cup
                  {[id |-> nextSaveId, updates |-> updates,
                    newSettings |-> Merge(settings, updates),
                    fabricPathChanged |-> /\ updates.fabricPath # UndefinedField
                                          /\ updates.fabricPath # settings.fabricPath,
                    loadedPath |-> settings.fabricPath]}
            /\ nextSaveId' = nextSaveId + 1
            /\ preferencesEvent' = PreferencesEvent("saveSettingsImmediate", nextSaveId,
                                                    updates, FALSE, settings.fabricPath)
    /\ UNCHANGED <<settings, storedSettings, statusTimers>>
    /\ UNCHANGED exceptPreferences

\* saveSettingsImmediate after its await: saveSettings resolved (the storage
\* holds the updates) or rejected.
SaveSettingsContinue(id, ok) ==
    \E save \in pendingSaves :
    /\ save.id = id
    /\ pendingSaves' = pendingSaves \ {save}
    /\ preferencesEvent' = PreferencesEvent("saveAnswered", id, save.updates, ok,
                                            save.loadedPath)
    /\ IF ok
       THEN /\ storedSettings' = [fabricPath |-> Merge(storedSettings, save.updates).fabricPath,
                                  fabricModel |-> Merge(storedSettings, save.updates).fabricModel]
            /\ settings' = save.newSettings
            /\ preferencesSent' = IF save.fabricPathChanged
                                  THEN << ReconnectRequest >> ELSE << >>
            /\ saveStatus' = "saved"
       ELSE /\ UNCHANGED <<storedSettings, settings>>
            /\ preferencesSent' = << >>
            /\ saveStatus' = "error"
    /\ statusTimers' = statusTimers + 1
    /\ UNCHANGED nextSaveId
    /\ UNCHANGED exceptPreferences

\* setTimeout(() => (saveStatus = 'idle'), 2000)
SaveStatusTimeout ==
    /\ statusTimers > 0
    /\ statusTimers' = statusTimers - 1
    /\ saveStatus' = "idle"
    /\ preferencesSent' = << >>
    /\ preferencesEvent' = PreferencesEvent("statusTimeout", 0, NoUpdates, FALSE, "")
    /\ UNCHANGED <<settings, storedSettings, pendingSaves, nextSaveId>>
    /\ UNCHANGED exceptPreferences

PreferencesNext ==
    \/ LoadSettings
    \/ \E updates \in SavedUpdates : SaveSettingsImmediate(updates)
    \/ \E id \in SaveIds : \E ok \in BOOLEAN : SaveSettingsContinue(id, ok)
    \/ SaveStatusTimeout

PreferencesSpec == Init /\ [][PreferencesNext]_vars

----------------------------------------------------------------------------
(* Properties                                                              *)

IsNativeEvent(e, type) == e.op = "handleNativeMessage" /\ e.type = type

\* The sendResponse calls of a run that cleaned up the entries of pending:
\* one processingError per entry, in insertion order.
ErrorsFor(pending, resps) ==
    /\ Len(resps) >= Len(pending)
    /\ \A i \in 1..Len(pending) :
          /\ resps[i].to = pending[i].respond
          /\ resps[i].type = "internal.processingError"
          /\ Calls(resps, pending[i].respond) = 1

\* C1: after a native.pong frame is handled the connection state is
\* connected when the pong said valid and disconnected when it did not, and
\* the run issued exactly one internal.connectionStatus broadcast, carrying
\* that resulting status.
C1_PongSetsStatusAndBroadcastsOnce ==
    IsNativeEvent(lastEvent, "native.pong") =>
        /\ nativeConnection.status = (IF lastEvent.valid THEN "connected" ELSE "disconnected")
        /\ broadcasts = << StatusMessage(nativeConnection.status) >>

C1_Witness ==
    /\ IsNativeEvent(lastEvent, "native.pong")
    /\ lastEvent.valid
    /\ lastEvent.was = "connecting"
    /\ nativeConnection.status = "connected"
    /\ Len(broadcasts) = 1

\* C2: when a port's disconnect notification fires while N requests are
\* pending, each pending callback is invoked exactly once (and was never
\* invoked before) with an internal.processingError, nothing else is answered,
\* the pending map is empty afterwards, the connection state is disconnected
\* and one disconnected status is broadcast.
C2_DisconnectFailsEveryPending ==
    [][lastEvent'.op = "onDisconnect" =>
          /\ ErrorsFor(pendingRequests, responses')
          /\ Len(responses') = Len(pendingRequests)
          /\ \A i \in 1..Len(pendingRequests) : called'[pendingRequests[i].respond] = 1
          /\ pendingRequests' = << >>
          /\ nativeConnection'.status = "disconnected"
          /\ broadcasts' = << StatusMessage("disconnected") >>]_vars

C2_Witness ==
    /\ lastEvent.op = "onDisconnect"
    /\ Len(responses) = 2
    /\ responses[1].to # responses[2].to
    /\ pendingRequests = << >>

\* C3 (as claimed): an entry never leaves the pending map without its callback
\* having been invoked, exactly once, by the run that removes it, and no
\* callback is ever invoked twice.
C3_NoEntryRemovedUnanswered ==
    [][\A i \in 1..Len(pendingRequests) :
          LET entry == pendingRequests[i] IN
          /\ ~HasPending(pendingRequests', entry.id) => Calls(responses', entry.respond) = 1
          /\ called'[entry.respond] <= 1]_vars

\* The events that, according to C4, may end a pending processContent entry:
\* its terminal frame, or the teardown of the transport.
TerminalOrTeardown(e, id) ==
    \/ /\ e.op = "handleNativeMessage"
       /\ e.type \in {"native.done", "native.error", "native.cancelled"}
       /\ e.id = id
    \/ e.op = "onDisconnect"
    \/ e.op = "onMessage" /\ e.type = "internal.reconnectNative"

\* The events that do end it in the code: done or error for its id, a list
\* frame carrying its id, and everything that runs cleanupPending.
EndsEntry(e, id) ==
    \/ /\ e.op = "handleNativeMessage"
       /\ e.type \in {"native.done", "native.error",
                      "native.patternsList", "native.contextsList"}
       /\ e.id = id
    \/ IsNativeEvent(e, "native.pong") /\ ~e.valid
    \/ e.op = "onDisconnect"
    \/ e.op = "onMessage" /\ e.type = "internal.reconnectNative"

\* What C4 says about content frames and about the moment a request is sent.
ContentLeavesPending ==
    /\ IsNativeEvent(lastEvent', "native.content") =>
          /\ pendingRequests' = pendingRequests
          /\ responses' = << >>
          /\ Len(broadcasts') = 1
          /\ broadcasts'[1].type = "internal.processingContent"
    /\ (lastEvent'.op = "sendRequest" /\ posted' # << >>) =>
          HasPending(pendingRequests', lastEvent'.id)

C5_CancelledResolvesPending ==
    [][(IsNativeEvent(lastEvent', "native.cancelled")
          /\ HasPending(pendingRequests, lastEvent'.id))
       => /\ responses' = << Response(GetPending(pendingRequests, lastEvent'.id),
                                      "internal.processingCancelled", "", lastEvent'.id) >>
          /\ ~HasPending(pendingRequests', lastEvent'.id)]_vars

\* The request frames the handlers of the native-bound requests post.
NativeRequestFrameTypes ==
    {"native.listPatterns", "native.listContexts", "native.processContent"}

\* C6 (as claimed): whenever a request frame is posted, the pending entry of
\* its id was already in pendingRequests at the time of the postMessage call.
C6_RecordedBeforePosted ==
    \A i \in 1..Len(posted) :
        posted[i].type \in NativeRequestFrameTypes => posted[i].recorded

\* C6 (amended): the entry is recorded by the same synchronous run that posts
\* the frame, right after the postMessage call: it is not in the map at the
\* time of the call, and it is in the map, holding the requester's callback,
\* when that run ends, so no other listener ever runs in between.
C6_RecordedByTheRunThatPosts ==
    \A i \in 1..Len(posted) :
        posted[i].type \in NativeRequestFrameTypes =>
            /\ ~posted[i].recorded
            /\ HasPending(pendingRequests, posted[i].id)
            /\ GetPending(pendingRequests, posted[i].id) = lastEvent.req

C6_Witness ==
    /\ lastEvent.op = "sendRequest"
    /\ Len(posted) = 1
    /\ posted[1].type = "native.processContent"
    /\ HasPending(pendingRequests, posted[1].id)

\* C7: when a well-formed listPatterns, listContexts or processContent request
\* is handled while the connection state is not connected, the requester gets
\* internal.processingError 'Not connected to native host', nothing is posted
\* and no pending entry is recorded for it, neither now nor later (its handler
\* has returned).
C7_NotConnectedIsRefused ==
    (/\ lastEvent.op = "onMessage"
     /\ lastEvent.type \in NativeBoundTypes
     /\ lastEvent.ret = "true"
     /\ lastEvent.was # "connected")
    => /\ responses = << Response(lastEvent.req, "internal.processingError",
                                  "Not connected to native host", NoId) >>
       /\ posted = << >>
       /\ requests[lastEvent.req] = Returned
       /\ \A i \in 1..Len(pendingRequests) : pendingRequests[i].respond # lastEvent.req

C7_Witness ==
    /\ lastEvent.op = "onMessage"
    /\ lastEvent.type = "internal.processContent"
    /\ lastEvent.was = "connecting"
    /\ Len(responses) = 1
    /\ responses[1].message = "Not connected to native host"

\* C8 (as claimed): an internal.cancelProcess request handled while connected
\* posts exactly one native.cancelProcess frame carrying its requestId and is
\* not answered in that run; handled while not connected it is answered with
\* internal.processingError 'Not connected to native host' and posts nothing.
C8_CancelProcessIsForwarded ==
    (lastEvent.op = "onMessage" /\ lastEvent.type = "internal.cancelProcess")
    => IF lastEvent.was = "connected"
       THEN /\ responses = << >>
            /\ Len(posted) = 1
            /\ posted[1].type = "native.cancelProcess"
            /\ posted[1].requestId = lastEvent.id
       ELSE /\ responses = << Response(lastEvent.req, "internal.processingError",
                                       "Not connected to native host", NoId) >>
            /\ posted = << >>

\* C9 (as claimed): whenever the connection is connecting it eventually is
\* not connecting any more, also when no pong ever arrives.
C9_ConnectingIsEventuallyLeft ==
    (nativeConnection.status = "connecting") ~> (nativeConnection.status # "connecting")

IsConnectEvent(e) ==
    \/ e.op \in {"onInstalled", "onStartup"}
    \/ e.op = "onMessage" /\ e.type = "internal.reconnectNative"

\* C11 (as claimed): the connection state changes only along the three-state
\* machine: to connected only from connecting and only by a valid pong, to
\* connecting only from disconnected and only by a run that calls
\* connectNative (a reconnect request passes through disconnected within its
\* run), and to disconnected only by an invalid pong, a port disconnect or a
\* reconnect request; it never goes from disconnected straight to connected.
C11_ThreeStateMachineOnly ==
    [][nativeConnection'.status # nativeConnection.status =>
          CASE nativeConnection'.status = "connected" ->
                  /\ nativeConnection.status = "connecting"
                  /\ IsNativeEvent(lastEvent', "native.pong")
                  /\ lastEvent'.valid
            [] nativeConnection'.status = "connecting" ->
                  /\ IsConnectEvent(lastEvent')
                  /\ \/ nativeConnection.status = "disconnected"
                     \/ /\ lastEvent'.type = "internal.reconnectNative"
                        /\ broadcasts' = << StatusMessage("disconnected") >>
            [] OTHER ->
                  \/ IsNativeEvent(lastEvent', "native.pong") /\ ~lastEvent'.valid
                  \/ lastEvent'.op = "onDisconnect"]_vars

\* What C12 says in every reading: a port is opened and a handshake is begun
\* only by a run that calls connectNative; a port disconnect and an invalid
\* pong post nothing; a request frame is posted only by the continuation of
\* its own request, which has not been answered before and is finished by
\* that run, so no request is ever sent twice or re-sent after it failed.
NoNewAttemptAndNoResend ==
    /\ \A p \in Ports :
          (ports[p] = "unopened" /\ ports'[p] # "unopened") \/
          (handshake[p] = "none" /\ handshake'[p] # "none")
          => IsConnectEvent(lastEvent')
    /\ (lastEvent'.op = "onDisconnect"
          \/ (IsNativeEvent(lastEvent', "native.pong") /\ ~lastEvent'.valid))
       => /\ posted' = << >>
          /\ nativeConnection'.status = "disconnected"
    /\ \A i \in 1..Len(posted') :
          posted'[i].type \in NativeRequestFrameTypes =>
             /\ lastEvent'.op = "sendRequest"
             /\ Len(posted') = 1
             /\ requests[lastEvent'.req].pc = "loading"
             /\ called[lastEvent'.req] = 0
             /\ requests'[lastEvent'.req] = Returned

C13_ReportedConnectedIffConnected ==
    /\ \A i \in 1..Len(broadcasts) :
          broadcasts[i].type = "internal.connectionStatus" =>
             /\ broadcasts[i].status \in {"connected", "disconnected"}
             /\ broadcasts[i].status = "connected" <=> nativeConnection.status = "connected"
    /\ \A i \in 1..Len(responses) :
          responses[i].type = "internal.connectionStatus" =>
             /\ responses[i].message \in {"connected", "disconnected"}
             /\ responses[i].message = "connected" <=> nativeConnection.status = "connected"
    /\ (lastEvent.op = "onMessage" /\ lastEvent.type = "internal.connectionStatus") =>
          /\ Len(responses) = 1
          /\ responses[1].type = "internal.connectionStatus"
          /\ nativeConnection.status = lastEvent.was

\* A status query answered while the handshake is still under way.
C13_Witness ==
    /\ lastEvent.op = "onMessage"
    /\ lastEvent.type = "internal.connectionStatus"
    /\ lastEvent.was = "connecting"
    /\ nativeConnection.status = "connecting"
    /\ responses = << Response(NoReq, "internal.connectionStatus", "disconnected", NoId) >>

IsReconnectEvent(e) == e.op = "onMessage" /\ e.type = "internal.reconnectNative"

IsMalformedRequest(e) ==
    /\ e.op = "onMessage"
    /\ \/ e.type \notin InternalRequestTypes
       \/ e.type = "internal.processContent" /\ ~e.valid

\* C15: an internal request of unknown type or without a required field is
\* answered with internal.processingError 'Invalid request format' and the
\* listener returns false; no handler is dispatched, nothing is posted or
\* broadcast, and connection state, ports and pending map stay as they were.
C15_MalformedRequestFailsClosed ==
    [][IsMalformedRequest(lastEvent') =>
          /\ lastEvent'.ret = "false"
          /\ responses' = << Response(NoReq, "internal.processingError",
                                      "Invalid request format", NoId) >>
          /\ posted' = << >>
          /\ broadcasts' = << >>
          /\ UNCHANGED <<nativeConnection, pendingRequests, ports, handshake, pings,
                         requests, called>>]_vars

\* A processContent request without content arrives while connected and a
\* request is pending.
C15_Witness ==
    /\ IsMalformedRequest(lastEvent)
    /\ lastEvent.type = "internal.processContent"
    /\ lastEvent.ret = "false"
    /\ nativeConnection.status = "connected"
    /\ pendingRequests # << >>
    /\ Len(responses) = 1

IsPortMessageEvent(e) == e.op \in {"handleNativeMessage", "invalidNativeMessage"}

RebroadcastType(type) ==
    CASE type = "native.content" -> "internal.processingContent"
      [] type = "native.done" -> "internal.processingDone"
      [] type = "native.error" -> "internal.processingError"

\* C17 (as claimed): each native.content, native.done and native.error frame
\* is rebroadcast as exactly one message of the corresponding internal type
\* that carries the correlation id of the frame.
C17_RebroadcastCarriesFrameId ==
    (lastEvent.op = "handleNativeMessage"
       /\ lastEvent.type \in {"native.content", "native.done", "native.error"})
    => /\ Len(broadcasts) = 1
       /\ broadcasts[1].type = RebroadcastType(lastEvent.type)
       /\ broadcasts[1].id = lastEvent.id

\* C18 (as claimed): a native.error frame for id A leaves every pending entry
\* of another id in the map, unanswered, and leaves the processing state of a
\* sidebar whose operation has another request id as it was.
C18_ErrorTouchesOnlyItsId ==
    [][IsNativeEvent(lastEvent', "native.error") =>
          /\ responses' = << >>
          /\ SelectSeq(pendingRequests', LAMBDA e : e.id # lastEvent'.id)
                = SelectSeq(pendingRequests, LAMBDA e : e.id # lastEvent'.id)
          /\ \A state \in ProcessingStates :
                state.requestId # lastEvent'.id => Delivered(state, broadcasts') = state]_vars

\* The internal response type in which a list frame is handed to its requester.
ListResponseType(type) ==
    CASE type = "native.patternsList" -> "internal.patternsList"
      [] type = "native.contextsList" -> "internal.contextsList"

\* C19: a native.patternsList or native.contextsList frame whose id has a
\* pending entry invokes that entry's callback, once and for the first time,
\* with the list and removes the entry; a frame whose id has no entry invokes
\* nothing and leaves the map as it is; every entry of another id stays, in
\* order and unanswered, and nothing is broadcast.
C19_ListFrameResolvesItsEntryOnly ==
    [][(lastEvent'.op = "handleNativeMessage"
          /\ lastEvent'.type \in {"native.patternsList", "native.contextsList"})
       => LET id == lastEvent'.id
              others(pending) == SelectSeq(pending, LAMBDA e : e.id # id)
          IN /\ IF \E i \in 1..Len(pendingRequests) : pendingRequests[i].id = id
                THEN \E i \in 1..Len(pendingRequests) :
                        /\ pendingRequests[i].id = id
                        /\ responses' = << Response(pendingRequests[i].respond,
                                                    ListResponseType(lastEvent'.type),
                                                    "", NoId) >>
                        /\ called'[pendingRequests[i].respond] = 1
                        /\ Len(pendingRequests') = Len(pendingRequests) - 1
                ELSE /\ responses' = << >>
                     /\ pendingRequests' = pendingRequests
             /\ pendingRequests' = others(pendingRequests)
             /\ broadcasts' = << >>
             /\ posted' = << >>
             /\ nativeConnection' = nativeConnection]_vars

\* A list frame resolves the younger of two pending entries.
C19_Witness ==
    /\ lastEvent.op = "handleNativeMessage"
    /\ lastEvent.type = "native.contextsList"
    /\ Len(responses) = 1
    /\ responses[1].type = "internal.contextsList"
    /\ responses[1].to = lastEvent.id
    /\ Len(pendingRequests) = 1
    /\ pendingRequests[1].id < lastEvent.id

\* C20 (as claimed): every native.processContent frame carries the path, the
\* model and the context that the storage held when the handler of its
\* request loaded the settings.
C20_FrameCarriesStoredOverrides ==
    \A i \in 1..Len(posted) :
        posted[i].type = "native.processContent" =>
            /\ posted[i].carries.path = posted[i].stored.fabricPath
            /\ posted[i].carries.model = posted[i].stored.fabricModel
            /\ posted[i].carries.context = posted[i].stored.fabricContext

C22_CancelOfInactiveIdIsAnError ==
    [][(hostEvent'.op \in {"cancelProcess", "cancelUnknown"}
          /\ ~IsInFlight(hostEvent'.requestId))
       => /\ Len(hostEvent'.emitted) = 1
          /\ hostEvent'.emitted[1].type = "native.error"
          /\ hostEvent'.emitted[1].id = hostEvent'.id
          /\ UNCHANGED <<inFlight, stream>>]_vars

\* A cancel request named an operation that had ended with done.
C22_Witness ==
    /\ hostEvent.op = "cancelUnknown"
    /\ hostEvent.requestId \in OpIds
    /\ Len(stream[hostEvent.requestId]) >= 1
    /\ stream[hostEvent.requestId][Len(stream[hostEvent.requestId])] = "native.done"
    /\ hostEvent.emitted[1].type = "native.error"

\* C23: no two operations in flight have the same correlation id, and a
\* processContent request whose id has an operation in flight is answered
\* with an error frame and leaves that operation, its cursor and its frames
\* as they were.
C23_DuplicateIdIsRejected ==
    [][/\ \A o1, o2 \in inFlight' : o1.id = o2.id => o1 = o2
       /\ (hostEvent'.op \in {"processContent", "duplicateProcessContent"}
             /\ IsInFlight(hostEvent'.id))
          => /\ UNCHANGED <<inFlight, stream>>
             /\ hostEvent'.emitted = << Frame("native.error", hostEvent'.id, NoId) >>]_vars

\* A duplicate request arrived for an operation that had already streamed a line.
C23_Witness ==
    /\ hostEvent.op = "duplicateProcessContent"
    /\ IsInFlight(hostEvent.id)
    /\ OperationOf(hostEvent.id).cursor > 0
    /\ stream[hostEvent.id] # << >>

\* C24: chrome.runtime.onMessage holds the handler exactly while at least one
\* connection listener is registered: addListener is called only when the
\* handler is not registered (so it is never registered twice) and on the
\* first listener, removeListener only when the last listener leaves, and
\* the module's flag and handler reference say the same.
C24_HandlerRegisteredIffListeners ==
    [][/\ (onMessageListeners' # {}) <=> (connectionListeners' # {})
       /\ messageListenerRegistered' <=> (onMessageListeners' # {})
       /\ (chromeMessageListener' # "null") <=> messageListenerRegistered'
       /\ connectionEvent'.added = 1 => (onMessageListeners = {} /\ connectionListeners = {})
       /\ connectionEvent'.removed = 1 => (connectionListeners # {} /\ connectionListeners' = {})
       /\ (connectionEvent'.op = "removeConnectionListener" /\ connectionListeners' # {})
             => connectionEvent'.removed = 0]_vars

\* One of two listeners was removed and the handler stayed.
C24_Witness ==
    /\ connectionEvent.op = "removeConnectionListener"
    /\ connectionEvent.listener \notin connectionListeners
    /\ Cardinality(connectionListeners) = 1
    /\ connectionEvent.removed = 0
    /\ onMessageListeners = {"handleInternalMessage"}

C27_DebounceInvokesOncePerBurst ==
    LET IsCall(i) == history[i].kind = "call"
        IsInvoke(i) == history[i].kind = "invoke"
        Idx == 1..Len(history)
        \* k is the first call after i, if there is one
        NextCall(i, k) == k > i /\ IsCall(k) /\ \A m \in Idx : (i < m /\ m < k) => ~IsCall(m)
        LastCall(i) == IsCall(i) /\ \A m \in Idx : m > i => ~IsCall(m)
        InvokesBetween(i, k) == {m \in Idx : i < m /\ m < k /\ IsInvoke(m)}
    IN /\ \A j \in Idx : IsInvoke(j) =>
            \E i \in Idx : /\ i < j /\ IsCall(i)
                           /\ \A m \in Idx : (i < m /\ m < j) => ~IsCall(m)
                           /\ history[j].at = history[i].at + Delay
                           /\ history[j].args = history[i].args
       /\ \A i, k \in Idx : (IsCall(i) /\ NextCall(i, k)) =>
            IF history[k].at - history[i].at < Delay
            THEN InvokesBetween(i, k) = {}
            ELSE Cardinality(InvokesBetween(i, k)) = 1
       /\ \A i \in Idx : (LastCall(i) /\ (now > history[i].at + Delay \/ timers = {})) =>
            Cardinality(InvokesBetween(i, Len(history) + 1)) = 1

\* A burst of two calls was invoked once with the second call's arguments,
\* and a later call got its own invocation.
C27_Witness ==
    /\ Len(history) = 5
    /\ history[1].kind = "call" /\ history[2].kind = "call"
    /\ history[2].at - history[1].at < Delay
    /\ history[1].args # history[2].args
    /\ history[3].kind = "invoke" /\ history[3].args = history[2].args
    /\ history[4].kind = "call"
    /\ history[5].kind = "invoke"

\* C28: handleCancel acts only from processing: there it makes the state
\* cancelling with the same request id and output and sends one
\* internal.cancelProcess naming that id; in every other state it changes
\* nothing and sends nothing.  When the answer is processingCancelled with
\* that id, the state becomes error 'Process was cancelled' with the output
\* held at the click, and Go is offered instead of Cancel.
C28_CancelActsOnlyFromProcessing ==
    [][/\ sidebarEvent'.op = "handleCancel" =>
            IF processingState.type = "processing"
            THEN /\ processingState' = State("cancelling", processingState.requestId,
                                             processingState.output, "")
                 /\ sidebarSent' = << SidebarRequest("internal.cancelProcess",
                                                     processingState.requestId) >>
            ELSE /\ processingState' = processingState
                 /\ pendingCancel' = pendingCancel
                 /\ sidebarSent' = << >>
       /\ (sidebarEvent'.op = "cancelAnswered"
             /\ sidebarEvent'.answer = Answer("internal.processingCancelled",
                                              sidebarEvent'.requestId, ""))
            => /\ processingState' = State("error", NoId, sidebarEvent'.output,
                                           "Process was cancelled")
               /\ Control(processingState') = "Go"
               /\ sidebarSent' = << >>]_vars

\* A cancel of an operation with output was answered with processingCancelled.
C28_Witness ==
    /\ sidebarEvent.op = "cancelAnswered"
    /\ sidebarEvent.answer = Answer("internal.processingCancelled", sidebarEvent.requestId, "")
    /\ sidebarEvent.output # << >>
    /\ processingState = State("error", NoId, sidebarEvent.output, "Process was cancelled")
    /\ Control(processingState) = "Go"

\* C29: when the cancel request is answered with processingError, the state
\* becomes completed with the output if the message says the request was not
\* found or already completed, and error 'Failed to cancel: <message>' with
\* the output otherwise; it does not become 'Process was cancelled'.
C29_FailedCancelIsNotCancelled ==
    [][(sidebarEvent'.op = "cancelAnswered"
          /\ sidebarEvent'.answer.type = "internal.processingError")
       => /\ processingState' =
                IF IncludesNotFound(sidebarEvent'.answer.message)
                THEN State("completed", NoId, sidebarEvent'.output, "")
                ELSE State("error", NoId, sidebarEvent'.output,
                           FailedToCancel(sidebarEvent'.answer.message))
          /\ processingState'.message # "Process was cancelled"]_vars

\* The background refused the cancel request and the sidebar says so.
C29_Witness ==
    /\ sidebarEvent.op = "cancelAnswered"
    /\ sidebarEvent.answer = Answer("internal.processingError", NoId, "Invalid request format")
    /\ processingState.type = "error"
    /\ processingState.message = "Failed to cancel: Invalid request format"
    /\ processingState.output # << >>

\* C30: a run of saveSettingsImmediate sends one reconnect request when its
\* save succeeded and it set fabricPath to a value other than the one the
\* settings held when the run began; it sends none when the save failed,
\* when the updates leave fabricPath out or repeat the value held; and
\* nothing is sent before the save has been answered.
C30_ReconnectOnlyOnChangedPath ==
    [][/\ preferencesEvent'.op = "saveAnswered" =>
            preferencesSent' =
               IF /\ preferencesEvent'.ok
                  /\ preferencesEvent'.updates.fabricPath # UndefinedField
                  /\ preferencesEvent'.updates.fabricPath # preferencesEvent'.loadedPath
               THEN << ReconnectRequest >>
               ELSE << >>
       /\ preferencesEvent'.op # "saveAnswered" => preferencesSent' = << >>]_vars

\* A save that set a new path succeeded after an earlier save of that path
\* had been answered without a reconnect.
C30_Witness ==
    /\ preferencesEvent.op = "saveAnswered"
    /\ preferencesEvent.ok
    /\ preferencesEvent.updates.fabricPath = "/new/path/fabric"
    /\ preferencesEvent.loadedPath = "/usr/bin/fabric"
    /\ preferencesSent = << ReconnectRequest >>
    /\ settings.fabricPath = "/new/path/fabric"
    /\ storedSettings.fabricPath = "/new/path/fabric"

\* C31 (as claimed): a request frame is posted only while the connection
\* state is connected; when the state has changed during the settings load,
\* nothing is posted and the requester gets an error.
C31_RequestPostedOnlyWhileConnected ==
    \A i \in 1..Len(posted) :
        posted[i].type \in NativeRequestFrameTypes => nativeConnection.status = "connected"

\* C32 (as claimed): while there is a current connection, a disconnect
\* notification or a pong that arrives on another port changes neither the
\* connection state nor the pending requests, and answers no request.
C32_StalePortEventHasNoEffect ==
    [][(/\ \/ lastEvent'.op = "onDisconnect"
           \/ IsNativeEvent(lastEvent', "native.pong")
        /\ nativeConnection.status # "disconnected"
        /\ lastEvent'.port # nativeConnection.port)
       => /\ nativeConnection' = nativeConnection
          /\ pendingRequests' = pendingRequests
          /\ responses' = << >>]_vars

\* C33 (as claimed): the sidebar runs at most one operation at a time.
\* handleGo changes nothing and sends nothing while the state is capturing,
\* processing or cancelling; a request id is generated only from idle,
\* completed or error; Go is not offered while processing or cancelling; and
\* no operation is started (state set to processing, processContent sent)
\* while another one is processing or cancelling.
C33_AtMostOneOperation ==
    [][/\ (sidebarEvent'.op = "handleGo" /\ isProcessing(processingState))
            => /\ processingState' = processingState
               /\ sidebarSent' = << >>
               /\ nextRequestId' = nextRequestId
       /\ nextRequestId' # nextRequestId
            => processingState.type \in {"idle", "completed", "error"}
       /\ processingState'.type \in {"processing", "cancelling"}
            => Control(processingState') # "Go"
       /\ (\E i \in 1..Len(sidebarSent') : sidebarSent'[i].type = "internal.processContent")
            => processingState.type \notin {"processing", "cancelling"}]_vars

\* C34: a content, done or error message that carries an id other than the
\* current request id leaves the sidebar's processing state unchanged; while
\* no operation is active every message with an id is such a message.
C34_ForeignIdLeavesStateUnchanged ==
    [][(/\ sidebarEvent'.op = "handleMessage"
        /\ sidebarEvent'.answer.type \in {"internal.processingContent",
                                         "internal.processingDone",
                                         "internal.processingError"}
        /\ sidebarEvent'.answer.id # NoId
        /\ sidebarEvent'.answer.id # getRequestId(processingState))
       => processingState' = processingState]_vars

\* An error message with the id of the earlier operation has reached the
\* listener while the second operation is processing, and it still is.
C34_Witness ==
    /\ sidebarEvent.op = "handleMessage"
    /\ sidebarEvent.answer.type = "internal.processingError"
    /\ sidebarEvent.answer.id = 1
    /\ processingState.type = "processing"
    /\ processingState.requestId = 2

C36_OutputIsNeverLost ==
    [][LET s == processingState
           t == processingState'
           current(state) == state.type \in {"processing", "cancelling"}
           extends(longer, shorter) ==
               /\ Len(shorter) <= Len(longer)
               /\ SubSeq(longer, 1, Len(shorter)) = shorter
       IN (/\ current(s)
           /\ \/ current(t) /\ t.requestId = s.requestId
              \/ t.type \in {"completed", "error"})
          => extends(getOutput(t), getOutput(s))]_vars

====
